---- MODULE Spec2Model ----
(***************************************************************************)
(* A model of the watchmate review API (Django REST framework).            *)
(*                                                                         *)
(* State: the WatchList table (items with their avg_rating /               *)
(* number_rating aggregate), the Review table, and one record per request  *)
(* worker: its position in the handler and the model instances it holds in *)
(* memory.  The project sets no ATOMIC_REQUESTS and opens no transaction,  *)
(* so every ORM call (get, exists, save, delete) is its own database       *)
(* statement: each is one step of the model, and the Python code between   *)
(* two ORM calls belongs to the step of the call that follows it.          *)
(*                                                                         *)
(* avg_rating is a FloatField.  The model keeps it as an exact reduced     *)
(* fraction [num, den]; the claims compare it with the mean of small       *)
(* integer ratings, where the float error (about 1e-16) stays far below    *)
(* the 1e-9 tolerance the specification allows.                            *)
(*                                                                         *)
(* The read-only views (rankings, similar items, statistics, item detail)  *)
(* answer with the ids of the rows in the order returned.  Where the       *)
(* ORDER BY of a query leaves rows tied, the database may return them in   *)
(* any order, and the model draws every such order.  These views are run   *)
(* on catalogues drawn in Init: the columns and rows each query reads.     *)
(***************************************************************************)
EXTENDS Integers, FiniteSets, Sequences, TLC

\* ------------------------------------------------------------- bounds
MaxUsers == 2
MaxItems == 2
MaxProcs == 2
\* requests one worker serves one after the other in the sequential system
MaxSeqRequests == 3
\* calls that race in the scenarios of concurrent creates / concurrent votes
MaxConc == 2
MaxVoters == 3
\* genres in the catalogue
MaxGenres == 2
\* days the clock moves on while the trending view is read
MaxTicks == 1

Users == 1..MaxUsers
ItemIds == 1..MaxItems
Genres == 1..MaxGenres

\* MinValueValidator(1), MaxValueValidator(5) of Review.rating
MinRating == 1
MaxRating == 5
\* the ratings a client may send: both ends of the range and the nearest
\* value outside on either side
RatingInputs == {MinRating - 1, MinRating, MaxRating, MaxRating + 1}

\* ---------------------------------------------------------- fractions
RECURSIVE GCD(_, _)
GCD(a, b) == IF b = 0 THEN a ELSE GCD(b, a % b)

Abs(x) == IF x < 0 THEN -x ELSE x

\* n / d as a reduced fraction with a positive denominator (d # 0)
Frac(n, d) ==
    LET s == IF d < 0 THEN -1 ELSE 1
        g == GCD(Abs(n), Abs(d))
    IN  [num |-> (s * n) \div g, den |-> (s * d) \div g]

Zero == Frac(0, 1)

\* ------------------------------------------------------------- tables
\* WatchList row: the fields the review engine reads or writes
DefaultItem == [exists |-> TRUE, active |-> TRUE, avg_rating |-> Zero, number_rating |-> 0]
NoItem == [exists |-> FALSE, active |-> FALSE, avg_rating |-> Zero, number_rating |-> 0]

\* Review row
NewReview(id, u, i, r, t) ==
    [id |-> id, review_user |-> u, watchlist |-> i, rating |-> r,
     active |-> TRUE, helpful_count |-> 0, created |-> t]
NoReview == [id |-> 0, review_user |-> 0, watchlist |-> 0, rating |-> 0,
             active |-> FALSE, helpful_count |-> 0, created |-> 0]

\* a request and its answer
NoAgg == [given |-> FALSE, avg_rating |-> Zero, number_rating |-> 0]
NoReq == [kind |-> "none", user |-> 0, item |-> 0, review |-> 0, rating |-> 0,
          active |-> TRUE, agg |-> NoAgg, genres |-> {}]
Answer(s, v) == [status |-> s, value |-> v]
NoAnswer == Answer("none", 0)

VARIABLES
    items,      \* WatchList table: item id -> row
    nextItem,   \* next primary key of WatchList
    reviews,    \* Review table: a set of rows
    nextReview, \* next primary key of Review
    pc,         \* worker -> position in its handler
    req,        \* worker -> the request it serves (kept until the next one)
    wl,         \* worker -> the WatchList instance it holds in memory
    rv,         \* worker -> the Review instance it holds in memory
    result,     \* worker -> the answer of its last request
    left,       \* requests the system still accepts in this behaviour
    genres,     \* the many-to-many table WatchList.genres: item id -> genre ids
    now         \* the clock (timezone.now()), in days

vars == <<items, nextItem, reviews, nextReview, pc, req, wl, rv, result, left, genres, now>>

Free(p) == pc[p] \in {"idle", "done"}

\* a handler returns: the worker drops its instances
Finish(p, ans) ==
    /\ pc' = [pc EXCEPT ![p] = "done"]
    /\ result' = [result EXCEPT ![p] = ans]
    /\ wl' = [wl EXCEPT ![p] = NoItem]
    /\ rv' = [rv EXCEPT ![p] = NoReview]

Receive(p, r) ==
    /\ Free(p)
    /\ left > 0
    /\ req' = [req EXCEPT ![p] = r]
    /\ left' = left - 1

\* ------------------------------------------------ ReviewCreate (POST)
\* the validators of Review.rating with the lower one set to 0, the least
\* value a PositiveIntegerField takes
ValidRatingFromZero(r) == r >= 0 /\ r <= MaxRating

\* serializer.is_valid(): the validators of Review.rating
ValidRating(r) == r >= MinRating /\ r <= MaxRating

\* the duplicate test with its two filter arguments exchanged
ReviewExistsSwapped(u, i) == \E x \in reviews : x.review_user = i /\ x.watchlist = u

\* Review.objects.filter(watchlist=watchlist, review_user=review_user).exists()
ReviewExists(u, i) == \E x \in reviews : x.review_user = u /\ x.watchlist = i

\* unique_together = ('review_user', 'watchlist'), checked by the database
\* for every row but the one being written
UniqueOk(row) ==
    \A x \in reviews :
        x.id # row.id => ~(x.review_user = row.review_user /\ x.watchlist = row.watchlist)

\* the foreign key Review.watchlist
ForeignKeyOk(row) == items[row.watchlist].exists

\* the new average of perform_create; the caller excludes number_rating = -1,
\* where the division by number_rating + 1 raises ZeroDivisionError
NewAverage(w, rating) ==
    IF w.number_rating = 0
    THEN Frac(rating, 1)
    ELSE LET total == Frac(w.avg_rating.num * w.number_rating, w.avg_rating.den)
         IN  Frac(total.num + rating * total.den, total.den * (w.number_rating + 1))

\* CreateModelMixin.create: is_valid(raise_exception=True), then
\* perform_create up to WatchList.objects.get(pk=pk)
CreateReviewGet(p, u, i, r) ==
    /\ Receive(p, [NoReq EXCEPT !.kind = "CreateReview", !.user = u, !.item = i, !.rating = r])
    /\ UNCHANGED <<items, nextItem, reviews, nextReview, genres, now>>
    /\ IF ~ValidRating(r)
       THEN Finish(p, Answer("InvalidRating", 0))
       ELSE IF ~items[i].exists
       THEN Finish(p, Answer("ServerError", 0))
       ELSE /\ pc' = [pc EXCEPT ![p] = "cr_exists"]
            /\ wl' = [wl EXCEPT ![p] = items[i]]
            /\ UNCHANGED <<rv, result>>

\* review_queryset.exists(), then the arithmetic on the instance in memory
CreateReviewExists(p) ==
    /\ pc[p] = "cr_exists"
    /\ UNCHANGED <<items, nextItem, reviews, nextReview, req, left, genres, now>>
    /\ IF ReviewExists(req[p].user, req[p].item)
       THEN Finish(p, Answer("DuplicateReview", 0))
       ELSE IF wl[p].number_rating + 1 = 0
       THEN Finish(p, Answer("ServerError", 0))
       ELSE /\ pc' = [pc EXCEPT ![p] = "cr_save"]
            /\ wl' = [wl EXCEPT ![p] =
                       [wl[p] EXCEPT !.avg_rating = NewAverage(wl[p], req[p].rating),
                                     !.number_rating = wl[p].number_rating + 1]]
            /\ UNCHANGED <<rv, result>>

\* a save that writes the number_rating column alone
CreateReviewSaveCount(p) ==
    /\ pc[p] = "cr_save"
    /\ items' = [items EXCEPT ![req[p].item].number_rating = wl[p].number_rating]
    /\ pc' = [pc EXCEPT ![p] = "cr_insert"]
    /\ UNCHANGED <<nextItem, reviews, nextReview, req, wl, rv, result, left, genres, now>>

\* watchlist.save(): writes every field of the row (and inserts the row when
\* the UPDATE matches none)
CreateReviewSave(p) ==
    /\ pc[p] = "cr_save"
    /\ items' = [items EXCEPT ![req[p].item] = wl[p]]
    /\ pc' = [pc EXCEPT ![p] = "cr_insert"]
    /\ UNCHANGED <<nextItem, reviews, nextReview, req, wl, rv, result, left, genres, now>>

\* serializer.save(watchlist=watchlist, review_user=review_user): the INSERT
CreateReviewInsert(p) ==
    /\ pc[p] = "cr_insert"
    /\ UNCHANGED <<items, nextItem, req, left, genres, now>>
    /\ LET row == NewReview(nextReview, req[p].user, req[p].item, req[p].rating, now)
       IN  IF UniqueOk(row) /\ ForeignKeyOk(row)
           THEN /\ reviews' = reviews \cup {row}
                /\ nextReview' = nextReview + 1
                /\ Finish(p, Answer("Created", row.id))
           ELSE /\ UNCHANGED <<reviews, nextReview>>
                /\ Finish(p, Answer("IntegrityError", 0))

\* ------------------------------- ReviewDetail (PUT / DELETE), helpful vote
HasReview(id) == \E x \in reviews : x.id = id
ReviewById(id) == CHOOSE x \in reviews : x.id = id

\* permissions.IsReviewUserOrReadOnly on an unsafe method: the review's author
IsReviewUser(actor, row) == row.review_user = actor

\* Model.save() of a Review instance: UPDATE of the whole row by primary key,
\* INSERT of it when no row has that key; either is refused by the unique
\* constraint or the foreign key
CanSaveReview(row) == UniqueOk(row) /\ ForeignKeyOk(row)

\* a save that keeps, next to the row written, the reviews of its item only
SavedReviewsOfItem(row) ==
    {x \in reviews : x.id # row.id /\ x.watchlist = row.watchlist} \cup {row}

SavedReviews(row) == {x \in reviews : x.id # row.id} \cup {row}

\* the fields ReviewSerializer lets a client write (helpful_count is read-only,
\* watchlist is excluded, review_user is a read-only string)
ReviewWithData(row, r, act) == [row EXCEPT !.rating = r, !.active = act]

\* UpdateModelMixin.update: get_object() (404, then the object permission),
\* is_valid(raise_exception=True), then the fields are set on the instance
UpdateReviewGet(p, actor, id, r, act) ==
    /\ Receive(p, [NoReq EXCEPT !.kind = "UpdateReview", !.user = actor, !.review = id,
                                !.rating = r, !.active = act])
    /\ UNCHANGED <<items, nextItem, reviews, nextReview, genres, now>>
    /\ IF ~HasReview(id)
       THEN Finish(p, Answer("NotFound", 0))
       ELSE IF ~IsReviewUser(actor, ReviewById(id))
       THEN Finish(p, Answer("Forbidden", 0))
       ELSE IF ~ValidRating(r)
       THEN Finish(p, Answer("InvalidRating", 0))
       ELSE /\ pc' = [pc EXCEPT ![p] = "up_save"]
            /\ rv' = [rv EXCEPT ![p] = ReviewWithData(ReviewById(id), r, act)]
            /\ UNCHANGED <<wl, result>>

\* perform_update: serializer.save() -> instance.save(); the item is not touched
UpdateReviewSave(p) ==
    /\ pc[p] = "up_save"
    /\ UNCHANGED <<items, nextItem, nextReview, req, left, genres, now>>
    /\ IF CanSaveReview(rv[p])
       THEN /\ reviews' = SavedReviews(rv[p])
            /\ Finish(p, Answer("Updated", rv[p].id))
       ELSE /\ UNCHANGED reviews
            /\ Finish(p, Answer("IntegrityError", 0))

\* DestroyModelMixin.destroy: get_object()
DeleteReviewGet(p, actor, id) ==
    /\ Receive(p, [NoReq EXCEPT !.kind = "DeleteReview", !.user = actor, !.review = id])
    /\ UNCHANGED <<items, nextItem, reviews, nextReview, genres, now>>
    /\ IF ~HasReview(id)
       THEN Finish(p, Answer("NotFound", 0))
       ELSE IF ~IsReviewUser(actor, ReviewById(id))
       THEN Finish(p, Answer("Forbidden", 0))
       ELSE /\ pc' = [pc EXCEPT ![p] = "del_delete"]
            /\ rv' = [rv EXCEPT ![p] = ReviewById(id)]
            /\ UNCHANGED <<wl, result>>

\* perform_destroy: instance.delete(); the item is not touched
DeleteReviewDelete(p) ==
    /\ pc[p] = "del_delete"
    /\ reviews' = {x \in reviews : x.id # rv[p].id}
    /\ Finish(p, Answer("Deleted", 0))
    /\ UNCHANGED <<items, nextItem, nextReview, req, left, genres, now>>

\* the increment of the vote counter, counted twice
AddHelpfulTwice(row) == [row EXCEPT !.helpful_count = @ + 2]

\* review.helpful_count += 1
AddHelpful(row) == [row EXCEPT !.helpful_count = @ + 1]

\* ReviewHelpfulView.post: Review.objects.get(pk=pk), helpful_count += 1 on
\* the instance
MarkHelpfulGet(p, id) ==
    /\ Receive(p, [NoReq EXCEPT !.kind = "MarkHelpful", !.review = id])
    /\ UNCHANGED <<items, nextItem, reviews, nextReview, genres, now>>
    /\ IF ~HasReview(id)
       THEN Finish(p, Answer("NotFound", 0))
       ELSE /\ pc' = [pc EXCEPT ![p] = "mh_save"]
            /\ rv' = [rv EXCEPT ![p] = AddHelpful(ReviewById(id))]
            /\ UNCHANGED <<wl, result>>

\* review.save(), then the response with the instance's helpful_count
MarkHelpfulSave(p) ==
    /\ pc[p] = "mh_save"
    /\ UNCHANGED <<items, nextItem, nextReview, req, left, genres, now>>
    /\ IF CanSaveReview(rv[p])
       THEN /\ reviews' = SavedReviews(rv[p])
            /\ Finish(p, Answer("Helpful", rv[p].helpful_count))
       ELSE /\ UNCHANGED reviews
            /\ Finish(p, Answer("IntegrityError", 0))

\* ------------------------------------- WatchListGV / WatchDetailAV (admin)
\* what a client may send for the two aggregate fields of WatchListSerializer,
\* which lists avg_rating and number_rating among its writable fields
AggInputs ==
    {NoAgg,
     [given |-> TRUE, avg_rating |-> Frac(9, 2), number_rating |-> 0],
     [given |-> TRUE, avg_rating |-> Zero, number_rating |-> -1]}

\* the instance after WatchListSerializer has set the validated fields
ItemWithData(row, act, agg) ==
    IF agg.given
    THEN [row EXCEPT !.active = act, !.avg_rating = agg.avg_rating,
                     !.number_rating = agg.number_rating]
    ELSE [row EXCEPT !.active = act]

\* WatchDetailAV.get: WatchList.objects.get(pk=pk), answered with the row, of
\* which the model keeps the aggregate
GetItem(p, i) ==
    /\ Receive(p, [NoReq EXCEPT !.kind = "GetItem", !.item = i])
    /\ UNCHANGED <<items, nextItem, reviews, nextReview, genres, now>>
    /\ IF ~items[i].exists
       THEN Finish(p, Answer("NotFound", 0))
       ELSE Finish(p, Answer("Ok", <<items[i].avg_rating, items[i].number_rating>>))

\* WatchListGV POST (and WatchListAV.post): serializer.save() inserts the row
\* and sets its genres from genre_ids
CreateItem(p, act, agg, gs) ==
    /\ Receive(p, [NoReq EXCEPT !.kind = "CreateItem", !.active = act, !.agg = agg, !.genres = gs])
    /\ nextItem \in ItemIds
    /\ items' = [items EXCEPT ![nextItem] = ItemWithData(DefaultItem, act, agg)]
    /\ genres' = [genres EXCEPT ![nextItem] = gs]
    /\ nextItem' = nextItem + 1
    /\ Finish(p, Answer("Created", nextItem))
    /\ UNCHANGED <<reviews, nextReview, now>>

\* WatchDetailAV.put: WatchList.objects.get(pk=pk), is_valid()
UpdateItemGet(p, i, act, agg, gs) ==
    /\ Receive(p, [NoReq EXCEPT !.kind = "UpdateItem", !.item = i, !.active = act, !.agg = agg,
                                !.genres = gs])
    /\ UNCHANGED <<items, nextItem, reviews, nextReview, genres, now>>
    /\ IF ~items[i].exists
       THEN Finish(p, Answer("ServerError", 0))
       ELSE /\ pc' = [pc EXCEPT ![p] = "it_save"]
            /\ wl' = [wl EXCEPT ![p] = ItemWithData(items[i], act, agg)]
            /\ UNCHANGED <<rv, result>>

\* serializer.save() -> instance.save(): every field of the row is written,
\* and the genres are set from genre_ids
UpdateItemSave(p) ==
    /\ pc[p] = "it_save"
    /\ items' = [items EXCEPT ![req[p].item] = wl[p]]
    /\ genres' = [genres EXCEPT ![req[p].item] = req[p].genres]
    /\ Finish(p, Answer("Updated", req[p].item))
    /\ UNCHANGED <<nextItem, reviews, nextReview, req, left, now>>

\* WatchDetailAV.delete: WatchList.objects.get(pk=pk)
DeleteItemGet(p, i) ==
    /\ Receive(p, [NoReq EXCEPT !.kind = "DeleteItem", !.item = i])
    /\ UNCHANGED <<items, nextItem, reviews, nextReview, genres, now>>
    /\ IF ~items[i].exists
       THEN Finish(p, Answer("ServerError", 0))
       ELSE /\ pc' = [pc EXCEPT ![p] = "it_delete"]
            /\ wl' = [wl EXCEPT ![p] = items[i]]
            /\ UNCHANGED <<rv, result>>

\* movie.delete(): on_delete=CASCADE removes the item's reviews with it, and
\* its rows of the genres table
DeleteItemDelete(p) ==
    /\ pc[p] = "it_delete"
    /\ items' = [items EXCEPT ![req[p].item] = NoItem]
    /\ reviews' = {x \in reviews : x.watchlist # req[p].item}
    /\ genres' = [genres EXCEPT ![req[p].item] = {}]
    /\ Finish(p, Answer("Deleted", 0))
    /\ UNCHANGED <<nextItem, nextReview, req, left, now>>

\* ------------------------------------------------------ ranking queries
\* a > b for two avg_rating values
Greater(a, b) == a.num * b.den > b.num * a.den

\* the ids of the stored items
Stored == {i \in ItemIds : items[i].exists}

\* the sequences that hold every member of S once
Perms(S) ==
    {s \in [1..Cardinality(S) -> S] : \A i, j \in 1..Cardinality(S) : i # j => s[i] # s[j]}

\* ORDER BY: the rows of S in every order the database may return them, which
\* is any order where no row stands before one that the relation before (the
\* pairs the sort keys put in that order) puts first; rows that it does not
\* tell apart come in either order
Orderings(S, before) ==
    {s \in Perms(S) : \A i, j \in 1..Cardinality(S) : i < j => <<s[j], s[i]>> \notin before}

\* the slice [:n]
Take(s, n) == SubSeq(s, 1, IF Len(s) < n THEN Len(s) ELSE n)

\* a list view: one SELECT, answered with the rows in the order returned
List(p, kind, rows) ==
    /\ Receive(p, [NoReq EXCEPT !.kind = kind])
    /\ Finish(p, Answer("Ok", rows))
    /\ UNCHANGED <<items, nextItem, reviews, nextReview, genres, now>>

TopRatedMinReviews == 10
TopRatedLimit == 50

\* order_by('-avg_rating')
TopRatedBefore ==
    {r \in Stored \X Stored : Greater(items[r[1]].avg_rating, items[r[2]].avg_rating)}

\* TopRatedMoviesView.get_queryset
GetTopRated(p) ==
    \E s \in Orderings({i \in Stored : items[i].number_rating >= TopRatedMinReviews
                                       /\ items[i].active},
                       TopRatedBefore) :
        List(p, "GetTopRated", Take(s, TopRatedLimit))

PopularMinReviews == 5
PopularLimit == 20

\* order_by('-avg_rating', '-number_rating')
PopularBefore ==
    {r \in Stored \X Stored :
        \/ Greater(items[r[1]].avg_rating, items[r[2]].avg_rating)
        \/ /\ items[r[1]].avg_rating = items[r[2]].avg_rating
           /\ items[r[1]].number_rating > items[r[2]].number_rating}

\* PopularMoviesView.get_queryset
GetPopular(p) ==
    \E s \in Orderings({i \in Stored : items[i].number_rating >= PopularMinReviews
                                       /\ items[i].active},
                       PopularBefore) :
        List(p, "GetPopular", Take(s, PopularLimit))

TrendingDays == 7
TrendingLimit == 10

\* the annotation counting every review of the item
TotalReviewCount(i) == Cardinality({x \in reviews : x.watchlist = i})

\* annotate(recent_review_count=Count('reviews')) behind
\* filter(reviews__created__gte=seven_days_ago): the annotation counts the
\* rows of the join that the filter has kept
RecentReviewCount(i) ==
    Cardinality({x \in reviews : x.watchlist = i /\ x.created >= now - TrendingDays})

\* order_by('-recent_review_count')
TrendingBefore == {r \in Stored \X Stored : RecentReviewCount(r[1]) > RecentReviewCount(r[2])}

\* TrendingMoviesView.get_queryset: the items joined with their reviews, the
\* rows filtered and grouped by item
GetTrending(p) ==
    \E s \in Orderings({i \in Stored : items[i].active /\
                            \E x \in reviews : x.watchlist = i /\ x.created >= now - TrendingDays},
                       TrendingBefore) :
        List(p, "GetTrending", Take(s, TrendingLimit))

SimilarLimit == 10

\* the join of the active items other than item i with their genres, kept
\* where the genre is one of item i:
\* filter(genres__in=movie.genres.all(), active=True).exclude(pk=pk)
SimilarRows(i) ==
    {r \in Stored \X Genres :
        /\ r[2] \in genres[r[1]]
        /\ r[2] \in genres[i]
        /\ items[r[1]].active
        /\ r[1] # i}

\* the item of every row of the join, one entry per row, in any order
AllRows(rows) == {[k \in 1..Cardinality(rows) |-> s[k][1]] : s \in Perms(rows)}

\* distinct(): every item of the join once; the order is Meta.ordering
\* ('-created'), a column the model does not keep, so any order
Distinct(rows) == Perms({r[1] : r \in rows})

\* SimilarMoviesView.get_queryset: get_object_or_404(WatchList, pk=pk)
GetSimilarGet(p, i) ==
    /\ Receive(p, [NoReq EXCEPT !.kind = "GetSimilar", !.item = i])
    /\ UNCHANGED <<items, nextItem, reviews, nextReview, genres, now>>
    /\ IF i \notin Stored
       THEN Finish(p, Answer("NotFound", 0))
       ELSE /\ pc' = [pc EXCEPT ![p] = "sim_list"]
            /\ wl' = [wl EXCEPT ![p] = items[i]]
            /\ UNCHANGED <<rv, result>>

\* the list query, sliced [:10]
GetSimilarList(p) ==
    /\ pc[p] = "sim_list"
    /\ \E s \in Distinct(SimilarRows(req[p].item)) : Finish(p, Answer("Ok", Take(s, SimilarLimit)))
    /\ UNCHANGED <<items, nextItem, reviews, nextReview, req, left, genres, now>>

\* order_by('-number_rating')
MostReviewedBefore ==
    {r \in Stored \X Stored : items[r[1]].number_rating > items[r[2]].number_rating}

\* MovieStatisticsView.get: the counts of active items and active reviews and
\* the first row of the items ordered by number_rating (0 stands for None);
\* the users, the platforms and the mean of avg_rating are left out.  The
\* SELECTs of the handler are one step: it writes nothing
GetStatistics(p) ==
    \E s \in Orderings(Stored, MostReviewedBefore) :
        List(p, "GetStatistics",
             [total_movies |-> Cardinality({i \in Stored : items[i].active}),
              total_reviews |-> Cardinality({x \in reviews : x.active}),
              most_reviewed_movie |-> IF s = <<>> THEN 0 ELSE s[1]])

\* a day passes
Tick ==
    /\ now < TrendingDays + MaxTicks
    /\ now' = now + 1
    /\ UNCHANGED <<items, nextItem, reviews, nextReview, pc, req, wl, rv, result, left, genres>>

\* ---------------------------------------------------- specifications
RECURSIVE SumRatings(_)
SumRatings(S) ==
    IF S = {} THEN 0
    ELSE LET x == CHOOSE y \in S : TRUE IN x.rating + SumRatings(S \ {x})

\* the database after the reviews in seed were created on item 1, one call
\* after the other, and nothing else happened; no request in flight
InitWith(workers, budget, seed) ==
    /\ items = [i \in ItemIds |->
                  IF i # 1 THEN NoItem
                  ELSE IF seed = {} THEN DefaultItem
                  ELSE [DefaultItem EXCEPT
                          !.avg_rating = Frac(SumRatings(seed), Cardinality(seed)),
                          !.number_rating = Cardinality(seed)]]
    /\ nextItem = 2
    /\ reviews = seed
    /\ nextReview = Cardinality(seed) + 1
    /\ pc = [p \in workers |-> "idle"]
    /\ req = [p \in workers |-> NoReq]
    /\ wl = [p \in workers |-> NoItem]
    /\ rv = [p \in workers |-> NoReview]
    /\ result = [p \in workers |-> NoAnswer]
    /\ left = budget
    /\ genres = [i \in ItemIds |-> {}]
    /\ now = 0

\* MaxProcs workers, each serving one request of any kind, in flight together
\* or one after the other; the database starts empty or with one review
Init == \E seed \in {{}, {NewReview(1, 1, 1, MaxRating, 0)}} : InitWith(1..MaxProcs, MaxProcs, seed)

\* every review id a request may name: the ones handed out, and the next one
ReviewIds == 1..nextReview

\* a worker receives a request; acts are the values of the catalogue flag
\* WatchList.active that the item requests may carry, and the item requests
\* carry an empty genre_ids
Request(p, acts) ==
    \/ \E u \in Users, i \in ItemIds, r \in RatingInputs : CreateReviewGet(p, u, i, r)
    \/ \E u \in Users, id \in ReviewIds, r \in RatingInputs, act \in BOOLEAN :
           UpdateReviewGet(p, u, id, r, act)
    \/ \E u \in Users, id \in ReviewIds : DeleteReviewGet(p, u, id)
    \/ \E id \in ReviewIds : MarkHelpfulGet(p, id)
    \/ \E act \in acts, agg \in AggInputs : CreateItem(p, act, agg, {})
    \/ \E i \in ItemIds, act \in acts, agg \in AggInputs : UpdateItemGet(p, i, act, agg, {})
    \/ \E i \in ItemIds : DeleteItemGet(p, i)

\* a worker runs the next database statement of its handler
Continue(p) ==
    \/ CreateReviewExists(p)
    \/ CreateReviewSave(p)
    \/ CreateReviewInsert(p)
    \/ UpdateReviewSave(p)
    \/ DeleteReviewDelete(p)
    \/ MarkHelpfulSave(p)
    \/ UpdateItemSave(p)
    \/ DeleteItemDelete(p)

\* the workers are alike: the one with the least number takes the next request
NextWorker(p) == pc[p] = "idle" /\ \A q \in 1..(p - 1) : pc[q] # "idle"

\* (no handler of a review reads WatchList.active: the item requests leave it set)
Next == \E p \in 1..MaxProcs : (NextWorker(p) /\ Request(p, {TRUE})) \/ Continue(p)

Spec == Init /\ [][Next]_vars

\* one worker: the requests run one at a time
InitSeq == InitWith({1}, MaxSeqRequests, {})

NextSeq == Request(1, BOOLEAN) \/ Continue(1)

SpecSeq == InitSeq /\ [][NextSeq]_vars

\* one worker that serves only ReviewCreate and ReviewDetail (PUT, DELETE)
NextReviews ==
    \/ \E u \in Users, i \in ItemIds, r \in RatingInputs : CreateReviewGet(1, u, i, r)
    \/ \E u \in Users, id \in ReviewIds, r \in RatingInputs, act \in BOOLEAN :
           UpdateReviewGet(1, u, id, r, act)
    \/ \E u \in Users, id \in ReviewIds : DeleteReviewGet(1, u, id)
    \/ CreateReviewExists(1)
    \/ CreateReviewSave(1)
    \/ CreateReviewInsert(1)
    \/ UpdateReviewSave(1)
    \/ DeleteReviewDelete(1)

SpecReviews == InitSeq /\ [][NextReviews]_vars

\* MaxConc workers, each serving one ReviewCreate call on item 1 with a valid
\* rating, all in flight together
ConcWorkers == 1..MaxConc
ValidInputs == {r \in RatingInputs : r >= MinRating /\ r <= MaxRating}

InitCreates == InitWith(ConcWorkers, MaxConc, {})

NextCreates ==
    \E p \in ConcWorkers :
        \/ \E u \in ConcWorkers, r \in ValidInputs : pc[p] = "idle" /\ CreateReviewGet(p, u, 1, r)
        \/ CreateReviewExists(p)
        \/ CreateReviewSave(p)
        \/ CreateReviewInsert(p)

SpecCreates == InitCreates /\ [][NextCreates]_vars

\* worker 1 serves one ReviewCreate call on item 1, and MaxConc readers each
\* fetch item 1 once, at any moment; item 1 has no review or one by user 1
Readers == 2..(MaxConc + 1)

InitReads ==
    \E seed \in {{}} \cup {{NewReview(1, 1, 1, r, 0)} : r \in ValidInputs} :
        InitWith(1..(MaxConc + 1), MaxConc + 1, seed)

NextReads ==
    \/ \E u \in Users, r \in ValidInputs : pc[1] = "idle" /\ CreateReviewGet(1, u, 1, r)
    \/ CreateReviewExists(1)
    \/ CreateReviewSave(1)
    \/ CreateReviewInsert(1)
    \/ \E q \in Readers : pc[q] = "idle" /\ GetItem(q, 1)

SpecReads == InitReads /\ [][NextReads]_vars

\* MaxVoters workers, each serving one helpful vote on review 1, which user 1
\* wrote on item 1 before
Voters == 1..MaxVoters

InitVotes == \E r \in ValidInputs : InitWith(Voters, MaxVoters, {NewReview(1, 1, 1, r, 0)})

NextVotes ==
    \E p \in Voters :
        \/ pc[p] = "idle" /\ MarkHelpfulGet(p, 1)
        \/ MarkHelpfulSave(p)

SpecVotes == InitVotes /\ [][NextVotes]_vars

\* the same workers, each serving one helpful vote on review 1 or one
\* ReviewDetail PUT of review 1
NextVoteEdit ==
    \E p \in Voters :
        \/ pc[p] = "idle" /\ MarkHelpfulGet(p, 1)
        \/ \E u \in Users, r \in RatingInputs, act \in BOOLEAN :
               pc[p] = "idle" /\ UpdateReviewGet(p, u, 1, r, act)
        \/ MarkHelpfulSave(p)
        \/ UpdateReviewSave(p)

SpecVoteEdit == InitVotes /\ [][NextVoteEdit]_vars

\* the tables before the calls: one review, by user 1 on item 1
SeedReviews == {NewReview(1, 1, 1, MaxRating, 0)}

\* every item of the catalogue is stored, item 1 with the aggregate of its
\* one review, the others with none
SeedItems ==
    [i \in ItemIds |->
        IF i = 1
        THEN [DefaultItem EXCEPT !.avg_rating = Frac(MaxRating, 1), !.number_rating = 1]
        ELSE DefaultItem]

\* MaxConc workers each serve one ReviewCreate call on any item or one
\* ReviewDetail PUT (to the rating MinRating) or DELETE of any review, in
\* flight together (the workers are alike: the one with the least number
\* takes the next request)
InitItems ==
        /\ items = SeedItems
        /\ nextItem = MaxItems + 1
        /\ reviews = SeedReviews
        /\ nextReview = Cardinality(SeedReviews) + 1
        /\ pc = [p \in ConcWorkers |-> "idle"]
        /\ req = [p \in ConcWorkers |-> NoReq]
        /\ wl = [p \in ConcWorkers |-> NoItem]
        /\ rv = [p \in ConcWorkers |-> NoReview]
        /\ result = [p \in ConcWorkers |-> NoAnswer]
        /\ left = MaxConc
        /\ genres = [i \in ItemIds |-> {}]
        /\ now = 0

NextItems ==
    \E p \in ConcWorkers :
        \/ \E u \in Users, i \in ItemIds, r \in ValidInputs :
               NextWorker(p) /\ CreateReviewGet(p, u, i, r)
        \/ \E u \in Users, id \in ReviewIds :
               NextWorker(p) /\ UpdateReviewGet(p, u, id, MinRating, TRUE)
        \/ \E u \in Users, id \in ReviewIds : NextWorker(p) /\ DeleteReviewGet(p, u, id)
        \/ CreateReviewExists(p)
        \/ CreateReviewSave(p)
        \/ CreateReviewInsert(p)
        \/ UpdateReviewSave(p)
        \/ DeleteReviewDelete(p)

SpecItems == InitItems /\ [][NextItems]_vars

\* a catalogue drawn for the read-only views: one worker, no request in
\* flight, every item id handed out
InitCatalogue(its, gen, revs, t) ==
    /\ items = its
    /\ nextItem = MaxItems + 1
    /\ reviews = revs
    /\ nextReview = MaxUsers * MaxItems + 1
    /\ pc = [p \in {1} |-> "idle"]
    /\ req = [p \in {1} |-> NoReq]
    /\ wl = [p \in {1} |-> NoItem]
    /\ rv = [p \in {1} |-> NoReview]
    /\ result = [p \in {1} |-> NoAnswer]
    /\ left = MaxSeqRequests
    /\ genres = gen
    /\ now = t

NoGenres == [i \in ItemIds |-> {}]

\* the aggregates of the rows the ranking views are run on: on either side of
\* both thresholds, two of them with the same average
RankedAggregates ==
    {<<Frac(9, 2), TopRatedMinReviews + 2>>, <<Frac(9, 2), TopRatedMinReviews + 1>>,
     <<Frac(49, 10), TopRatedMinReviews - 2>>, <<Frac(49, 10), PopularMinReviews - 1>>}

RankedRows ==
    {NoItem} \cup
    {[exists |-> TRUE, active |-> a, avg_rating |-> g[1], number_rating |-> g[2]] :
        a \in BOOLEAN, g \in RankedAggregates}

\* the ranking views on a WatchList table of such rows
InitRanked == \E its \in [ItemIds -> RankedRows] : InitCatalogue(its, NoGenres, {}, 0)

NextRanked == GetTopRated(1) \/ GetPopular(1)

SpecRanked == InitRanked /\ [][NextRanked]_vars

\* the reviews of item i when its first k reviewers wrote on day 0 and the
\* next n on day TrendingDays
ReviewsOn(i, k, n) ==
    {NewReview((i - 1) * MaxUsers + u, u, i, MaxRating, IF u <= k THEN 0 ELSE TrendingDays) :
        u \in 1..(k + n)}

\* the trending view on a catalogue of active and inactive items whose
\* reviews were written a week ago or today, read today and on later days
InitTrending ==
    \E act \in [ItemIds -> BOOLEAN], old \in [ItemIds -> 0..MaxUsers], new \in [ItemIds -> 0..MaxUsers] :
        /\ \A i \in ItemIds : old[i] + new[i] <= MaxUsers
        /\ InitCatalogue([i \in ItemIds |-> [DefaultItem EXCEPT !.active = act[i]]], NoGenres,
                         UNION {ReviewsOn(i, old[i], new[i]) : i \in ItemIds}, TrendingDays)

NextTrending == GetTrending(1) \/ Tick

SpecTrending == InitTrending /\ [][NextTrending]_vars

\* the similar-items view on a catalogue of active and inactive items with
\* any genres
InitSimilar ==
    \E act \in [ItemIds -> BOOLEAN], gen \in [ItemIds -> SUBSET Genres] :
        InitCatalogue([i \in ItemIds |-> [DefaultItem EXCEPT !.active = act[i]]], gen, {}, 0)

NextSimilar == (\E i \in 1..(MaxItems + 1) : GetSimilarGet(1, i)) \/ GetSimilarList(1)

SpecSimilar == InitSimilar /\ [][NextSimilar]_vars

\* a row of the catalogue with n reviews of rating MaxRating, as n ReviewCreate
\* calls leave it
ReviewedItem(act, n) ==
    [exists |-> TRUE, active |-> act, avg_rating |-> IF n = 0 THEN Zero ELSE Frac(MaxRating, 1),
     number_rating |-> n]

\* the statistics view on a catalogue where an id has no item, or an active
\* or inactive item with some reviews, the first off[i] of them set inactive
\* by their authors
InitStatistics ==
    \E has \in [ItemIds -> BOOLEAN], act \in [ItemIds -> BOOLEAN],
       n \in [ItemIds -> 0..MaxUsers], off \in [ItemIds -> 0..MaxUsers] :
        /\ \A i \in ItemIds : off[i] <= n[i]
        /\ \A i \in ItemIds : ~has[i] => (~act[i] /\ n[i] = 0)
        /\ InitCatalogue([i \in ItemIds |-> IF has[i] THEN ReviewedItem(act[i], n[i]) ELSE NoItem],
                         NoGenres,
                         UNION {{[x EXCEPT !.active = (x.review_user > off[i])] :
                                    x \in ReviewsOn(i, 0, n[i])} : i \in ItemIds},
                         TrendingDays)

NextStatistics == GetStatistics(1)

SpecStatistics == InitStatistics /\ [][NextStatistics]_vars

\* ------------------------------------------------------------ properties
ReviewsOf(i) == {x \in reviews : x.watchlist = i}
ActiveReviewsOf(i) == {x \in ReviewsOf(i) : x.active}

\* number_rating is the number of reviews in S and avg_rating is their mean
AggregateIs(row, S) ==
    /\ row.number_rating = Cardinality(S)
    /\ row.avg_rating.num * Cardinality(S) = SumRatings(S) * row.avg_rating.den

AllDone == \A p \in ConcWorkers : pc[p] = "done"

\* C1: after any sequence of CreateReview / UpdateReview / DeleteReview calls
\* run one at a time, every item's number_rating is the number of its active
\* reviews and its avg_rating is their mean.  (Stated for the states where
\* every stored review is active, so that a violation rests on a changed or
\* deleted rating and not on a review switched to inactive.)
C1_AggregateConsistency ==
    (Free(1) /\ \A x \in reviews : x.active) =>
        \A i \in ItemIds : items[i].exists => AggregateIs(items[i], ActiveReviewsOf(i))

\* the sum of the ratings that workers 1..n submitted
RECURSIVE SubmittedSum(_)
SubmittedSum(n) == IF n = 0 THEN 0 ELSE req[n].rating + SubmittedSum(n - 1)

DistinctUsers == \A p, q \in ConcWorkers : p # q => req[p].user # req[q].user

\* C2: once MaxConc concurrent CreateReview calls by distinct users on an item
\* without reviews have all returned, number_rating is MaxConc and avg_rating
\* is the mean of the submitted ratings.
C2_NoLostUpdate ==
    (AllDone /\ DistinctUsers) =>
        /\ items[1].number_rating = MaxConc
        /\ items[1].avg_rating.num * MaxConc = SubmittedSum(MaxConc) * items[1].avg_rating.den

\* worker p took the step
Acted(p) == <<pc[p], req[p], result[p], wl[p], rv[p]>> # <<pc'[p], req'[p], result'[p], wl'[p], rv'[p]>>

\* no two stored reviews have the same (user, item)
UniquePairs ==
    \A x, y \in reviews : (x.review_user = y.review_user /\ x.watchlist = y.watchlist) => x = y

HasActiveReview(u, i) == \E x \in reviews : x.review_user = u /\ x.watchlist = i /\ x.active

DuplicateRejected(p) ==
    (pc[p] = "cr_exists" /\ Acted(p) /\ HasActiveReview(req[p].user, req[p].item)) =>
        /\ pc'[p] = "done"
        /\ result'[p].status = "DuplicateReview"
        /\ items' = items
        /\ reviews' = reviews
        /\ nextReview' = nextReview

\* C3: no two stored reviews have the same (user, item); and when the
\* duplicate test of a CreateReview call runs while its user has an active
\* review of the item, the call returns DuplicateReview and that step leaves
\* both tables as they were.
C3_Uniqueness ==
    /\ UniquePairs
    /\ [][UniquePairs' /\ \A p \in 1..MaxProcs : DuplicateRejected(p)]_vars

\* C3 witness: a second CreateReview of the same pair was answered
\* DuplicateReview while the first review is stored and active
C3_Witness ==
    \E p \in 1..MaxProcs :
        /\ pc[p] = "done"
        /\ req[p].kind = "CreateReview"
        /\ result[p].status = "DuplicateReview"
        /\ HasActiveReview(req[p].user, req[p].item)

\* C4: once MaxVoters concurrent MarkHelpful calls on a review with
\* helpful_count 0 have all returned, its helpful_count is MaxVoters.
C4_MonotonicVotes ==
    (\A p \in Voters : pc[p] = "done") => \A x \in reviews : x.id = 1 => x.helpful_count = MaxVoters

\* C5: when every CreateReview call has returned, among them one whose
\* INSERT of the review failed, the item's number_rating is still the number
\* of its stored reviews and avg_rating their mean.
C5_Atomicity ==
    ((\A p \in ConcWorkers : Free(p)) /\ (\E p \in ConcWorkers : result[p].status = "IntegrityError"))
        => AggregateIs(items[1], ReviewsOf(1))

\* C6: a DeleteReview that removes the only active review of an item leaves
\* the item with number_rating = 0 and avg_rating = 0.
C6_ZeroState ==
    [][(/\ pc[1] = "del_delete"
        /\ pc'[1] = "done"
        /\ ActiveReviewsOf(rv[1].watchlist) = {rv[1]})
       => (/\ items'[rv[1].watchlist].number_rating = 0
           /\ items'[rv[1].watchlist].avg_rating = Zero)]_vars

\* C7: an UpdateReview that changes the rating of a stored review from old to
\* new keeps the item's number_rating and the number of stored reviews, and
\* changes avg_rating * number_rating by new - old.
C7_UpdateAdjusts ==
    [][(/\ pc[1] = "up_save"
        /\ pc'[1] = "done"
        /\ HasReview(rv[1].id)
        /\ rv[1].active = ReviewById(rv[1].id).active)
       => LET i == rv[1].watchlist
              old == ReviewById(rv[1].id).rating
              new == rv[1].rating
              a == items[i].avg_rating
              b == items'[i].avg_rating
          IN  /\ items'[i].number_rating = items[i].number_rating
              /\ Cardinality(reviews') = Cardinality(reviews)
              /\ b.num * items'[i].number_rating * a.den
                   = (a.num * items[i].number_rating + (new - old) * a.den) * b.den]_vars

\* the request that worker p receives in this step gets as far as the
\* validation: a CreateReview, or an UpdateReview of a stored review by its
\* author
Reaches(p) ==
    \/ req'[p].kind = "CreateReview"
    \/ /\ req'[p].kind = "UpdateReview"
       /\ \E x \in reviews : x.id = req'[p].review /\ x.review_user = req'[p].user

OutOfRange(r) == r < 1 \/ r > 5

InvalidRejected(p) ==
    (left' = left - 1 /\ Acted(p) /\ Reaches(p) /\ OutOfRange(req'[p].rating)) =>
        /\ pc'[p] = "done"
        /\ result'[p].status = "InvalidRating"
        /\ items' = items
        /\ reviews' = reviews
        /\ nextReview' = nextReview

ValidAccepted(p) ==
    (req[p].kind \in {"CreateReview", "UpdateReview"} /\ ~OutOfRange(req[p].rating)) =>
        result[p].status # "InvalidRating" \/ pc[p] # "done"

\* C8: a CreateReview, or an UpdateReview by the author of an existing review,
\* that carries a rating outside 1..5 is answered InvalidRating in the step
\* that receives it, and that step leaves both tables as they were; no
\* request with a rating in 1..5 (1 and 5 among them) is answered
\* InvalidRating.
C8_RangeValidation ==
    /\ \A p \in 1..MaxProcs : ValidAccepted(p)
    /\ [][\A p \in 1..MaxProcs : InvalidRejected(p) /\ ValidAccepted(p)']_vars

\* C8 witness: an UpdateReview of a stored review by its author was answered
\* InvalidRating, and a CreateReview with rating 5 was answered Created
C8_Witness ==
    \E p, q \in 1..MaxProcs :
        /\ pc[p] = "done" /\ pc[q] = "done"
        /\ req[p].kind = "UpdateReview"
        /\ OutOfRange(req[p].rating)
        /\ result[p].status = "InvalidRating"
        /\ \E x \in reviews : x.id = req[p].review /\ x.review_user = req[p].user
        /\ req[q].kind = "CreateReview"
        /\ req[q].rating = 5
        /\ result[q].status = "Created"

\* C9: every item has number_rating >= 0, and number_rating = 0 implies
\* avg_rating = 0.
C9_NonNegative ==
    \A i \in ItemIds :
        items[i].exists =>
            /\ items[i].number_rating >= 0
            /\ (items[i].number_rating = 0 => items[i].avg_rating = Zero)

Aggregate(row) == <<row.avg_rating, row.number_rating>>

\* C10: only the aggregate update of a review call writes avg_rating and
\* number_rating: every other step of the interface keeps the pair of an
\* item it does not delete, and a created item starts with 0 and 0.
C10_AggregateOwnership ==
    [][pc[1] # "cr_save" =>
         \A i \in ItemIds :
            items'[i].exists =>
                Aggregate(items'[i]) =
                    IF items[i].exists THEN Aggregate(items[i]) ELSE <<Zero, 0>>]_vars

\* C11: helpful_count is never negative, and no step takes the helpful_count
\* of a stored review below the value it has.
C11_MonotonicHelpful ==
    /\ [](\A x \in reviews : x.helpful_count >= 0)
    /\ [][\A x \in reviews : \A y \in reviews' :
             x.id = y.id => y.helpful_count >= x.helpful_count]_vars

\* C12: run one call at a time, a MarkHelpful that names no stored review is
\* answered NotFound in the step that receives it and leaves the Review table
\* as it was; one that names a stored review leaves the table alone until
\* its save, which replaces that review by itself with helpful_count one
\* higher, keeps every other review, and answers with the helpful_count now
\* stored.
C12_MarkHelpful ==
    [][/\ (left' = left - 1 /\ req'[1].kind = "MarkHelpful") =>
            /\ reviews' = reviews
            /\ IF HasReview(req'[1].review)
               THEN pc'[1] = "mh_save"
               ELSE pc'[1] = "done" /\ result'[1].status = "NotFound"
       /\ (pc[1] = "mh_save" /\ pc'[1] = "done") =>
            /\ HasReview(req[1].review)
            /\ LET old == ReviewById(req[1].review)
                   new == [old EXCEPT !.helpful_count = old.helpful_count + 1]
               IN  /\ reviews' = (reviews \ {old}) \cup {new}
                   /\ result'[1] = Answer("Helpful", new.helpful_count)]_vars

\* C12 witness: the second vote on a review was answered with 2, the
\* helpful_count now stored
C12_Witness ==
    /\ pc[1] = "done"
    /\ req[1].kind = "MarkHelpful"
    /\ result[1] = Answer("Helpful", 2)
    /\ \E x \in reviews : x.id = req[1].review /\ x.helpful_count = 2

\* the one order of S that agrees with first, a relation that orders every
\* two members of S
TheOrder(S, first) ==
    CHOOSE s \in Perms(S) : \A i, j \in 1..Cardinality(S) : i < j => <<s[i], s[j]>> \in first

Answered(p, kind) == pc[p] = "done" /\ req[p].kind = kind

\* avg_rating descending, then item id ascending
TopRatedFirst ==
    {r \in Stored \X Stored :
        \/ Greater(items[r[1]].avg_rating, items[r[2]].avg_rating)
        \/ items[r[1]].avg_rating = items[r[2]].avg_rating /\ r[1] < r[2]}

\* C13: GetTopRated answers with the active items of number_rating >= 10,
\* the first 50 of them in the order of avg_rating descending and, among
\* equal avg_rating, item id ascending.
C13_TopRated ==
    Answered(1, "GetTopRated") =>
        result[1].value =
            Take(TheOrder({i \in Stored : items[i].active /\ items[i].number_rating >= 10},
                          TopRatedFirst), 50)

\* avg_rating descending, then number_rating descending, then item id
\* ascending
PopularFirst ==
    {r \in Stored \X Stored :
        \/ Greater(items[r[1]].avg_rating, items[r[2]].avg_rating)
        \/ /\ items[r[1]].avg_rating = items[r[2]].avg_rating
           /\ \/ items[r[1]].number_rating > items[r[2]].number_rating
              \/ items[r[1]].number_rating = items[r[2]].number_rating /\ r[1] < r[2]}

\* C14: GetPopular answers with the active items of number_rating >= 5, the
\* first 20 of them in the order of avg_rating descending, then number_rating
\* descending, then item id ascending.
C14_Popular ==
    Answered(1, "GetPopular") =>
        result[1].value =
            Take(TheOrder({i \in Stored : items[i].active /\ items[i].number_rating >= 5},
                          PopularFirst), 20)

\* the reviews of item i created within the 7 days up to now
InLastWeek(i) == {x \in reviews : x.watchlist = i /\ x.created >= now - 7 /\ x.created <= now}

TrendingAnswer(s) ==
    /\ Len(s) <= 10
    /\ \A k \in 1..Len(s) : s[k] \in Stored /\ items[s[k]].active /\ InLastWeek(s[k]) # {}
    /\ \A j, k \in 1..Len(s) : j # k => s[j] # s[k]
    /\ \A j, k \in 1..Len(s) :
          j < k => Cardinality(InLastWeek(s[j])) >= Cardinality(InLastWeek(s[k]))
    /\ Len(s) < 10 =>
          \A i \in Stored : (items[i].active /\ InLastWeek(i) # {}) => \E k \in 1..Len(s) : s[k] = i

\* C15: the answer of GetTrending holds at most 10 items, each active, each
\* with a review created within the last 7 days, none twice, in the order of
\* the number of such reviews descending; and when it holds fewer than 10,
\* every such item is in it.
C15_Trending ==
    [][(left' = left - 1 /\ req'[1].kind = "GetTrending") => TrendingAnswer(result'[1].value)]_vars

\* C15 witness: the view has put item 2 before item 1, which has as many
\* reviews but fewer within the last week
C15_Witness ==
    /\ Answered(1, "GetTrending")
    /\ result[1].value = <<2, 1>>
    /\ Cardinality(ReviewsOf(1)) >= Cardinality(ReviewsOf(2))
    /\ Cardinality(InLastWeek(1)) < Cardinality(InLastWeek(2))

SimilarTo(i) == {j \in Stored : j # i /\ items[j].active /\ genres[j] \cap genres[i] # {}}

\* C16: the answer of GetSimilar holds at most 10 items, each active, each
\* with a genre in common with the reference item, none the reference item,
\* none twice; it is empty when the reference item has no genres; and when
\* it holds fewer than 10, every such item is in it.
C16_Similar ==
    (Answered(1, "GetSimilar") /\ result[1].status = "Ok") =>
        LET s == result[1].value
        IN  /\ Len(s) <= 10
            /\ \A k \in 1..Len(s) : s[k] \in SimilarTo(req[1].item)
            /\ \A j, k \in 1..Len(s) : j # k => s[j] # s[k]
            /\ genres[req[1].item] = {} => s = <<>>
            /\ Len(s) < 10 => \A i \in SimilarTo(req[1].item) : \E k \in 1..Len(s) : s[k] = i

\* C16 witness: item 2 shares two genres with the reference item 1 and is
\* in the answer once
C16_Witness ==
    /\ Answered(1, "GetSimilar")
    /\ req[1].item = 1
    /\ Cardinality(genres[1] \cap genres[2]) >= 2
    /\ result[1] = Answer("Ok", <<2>>)

\* the items whose number_rating no item exceeds
MostReviewed == {i \in Stored : \A j \in Stored : items[j].number_rating <= items[i].number_rating}

\* C17: GetPlatformStatistics names as most-reviewed item the lowest id among
\* the items of greatest number_rating, and none exactly when no item is
\* stored; its totals are the numbers of active items and of active reviews.
C17_Statistics ==
    Answered(1, "GetStatistics") =>
        LET a == result[1].value
        IN  /\ a.most_reviewed_movie =
                  IF Stored = {} THEN 0
                  ELSE CHOOSE i \in MostReviewed : \A j \in MostReviewed : i <= j
            /\ a.total_movies = Cardinality({i \in Stored : items[i].active})
            /\ a.total_reviews = Cardinality({x \in reviews : x.active})

\* the reviews of item 1 that worker 1 did not insert
ReviewsBefore ==
    IF pc[1] = "done" /\ result[1].status = "Created"
    THEN {x \in ReviewsOf(1) : x.id # result[1].value}
    ELSE ReviewsOf(1)

\* avg_rating and number_rating of an item whose reviews have the sum t and
\* the number n
PairOf(t, n) == <<IF n = 0 THEN Zero ELSE Frac(t, n), n>>

PairBefore == PairOf(SumRatings(ReviewsBefore), Cardinality(ReviewsBefore))
PairAfter == PairOf(SumRatings(ReviewsBefore) + req[1].rating, Cardinality(ReviewsBefore) + 1)

\* C18: whenever a reader fetches the item while a CreateReview is served,
\* before it or after it, the (avg_rating, number_rating) it gets is the pair
\* of the reviews without the new one or the pair of the reviews with it.
C18_NoHalfApplied ==
    \A q \in Readers :
        (pc[q] = "done" /\ result[q].status = "Ok") =>
            \/ result[q].value = PairBefore
            \/ req[1].kind = "CreateReview" /\ result[q].value = PairAfter

\* C18 witness: a reader has the pair with the new rating, another the pair
\* without it, and the two pairs differ in both parts; the call is still
\* in flight
C18_Witness ==
    /\ pc[1] = "cr_insert"
    /\ PairBefore[1] # PairAfter[1]
    /\ \E q, o \in Readers :
          /\ pc[q] = "done" /\ result[q].value = PairAfter
          /\ pc[o] = "done" /\ result[o].value = PairBefore

SameUser == \A p, q \in ConcWorkers : req[p].user = req[q].user

\* C19: once concurrent CreateReview calls of one user on the same item have
\* all returned, at most one review of the pair is stored, at most one call
\* was answered Created, and the item's number_rating has grown by the
\* number of reviews stored.
C19_RacingSubmit ==
    (AllDone /\ SameUser) =>
        /\ Cardinality(ReviewsOf(1)) <= 1
        /\ Cardinality({p \in ConcWorkers : result[p].status = "Created"}) <= 1
        /\ items[1].number_rating = Cardinality(ReviewsOf(1))

\* worker p has served a vote and worker q an UpdateReview of the author, both
\* on review 1, and no other request has arrived
OneVoteOneEdit(p, q) ==
    /\ pc[p] = "done" /\ req[p].kind = "MarkHelpful" /\ result[p].status = "Helpful"
    /\ pc[q] = "done" /\ req[q].kind = "UpdateReview" /\ result[q].status = "Updated"
    /\ \A o \in Voters \ {p, q} : pc[o] = "idle"

\* C20: once one MarkHelpful and one UpdateReview by the author, served
\* together on a review with helpful_count 0, have both returned, the review
\* holds the rating and the active flag of the update and helpful_count 1;
\* and the save of a MarkHelpful that no other request has joined changes
\* nothing of the Review table but the helpful_count of its review.
C20_NoOverwrite ==
    /\ [](\A p, q \in Voters :
            OneVoteOneEdit(p, q) =>
                \A x \in reviews :
                    x.id = 1 => /\ x.rating = req[q].rating
                                /\ x.active = req[q].active
                                /\ x.helpful_count = 1)
    /\ [][\A p \in Voters :
             (/\ pc[p] = "mh_save" /\ pc'[p] = "done"
              /\ \A o \in Voters \ {p} : pc[o] = "idle")
             => reviews' = {[x EXCEPT !.helpful_count = x.helpful_count + 1] : x \in reviews}]_vars

\* the item that the call of worker p is about: the item named by a
\* CreateReview, the item of the review that an UpdateReview or DeleteReview
\* holds
TargetItem(p) == IF req[p].kind = "CreateReview" THEN req[p].item ELSE rv[p].watchlist

\* a step of worker p leaves the row and the reviews of every item but the
\* target as they are; the step that receives the call writes nothing
OthersUntouched(p) ==
    Acted(p) =>
        IF req'[p] # req[p] \/ left' # left
        THEN items' = items /\ reviews' = reviews
        ELSE \A b \in ItemIds \ {TargetItem(p)} :
                /\ items'[b] = items[b]
                /\ {x \in reviews' : x.watchlist = b} = ReviewsOf(b)

\* every worker has served a CreateReview, no two on the same item
CreatesOnDifferentItems ==
    /\ \A p \in ConcWorkers : pc[p] = "done" /\ req[p].kind = "CreateReview"
    /\ \A p, q \in ConcWorkers : p # q => req[p].item # req[q].item

\* the answer, the item row and the reviews of the item that the CreateReview
\* of worker p leaves when it is the only call served from the first state:
\* InvalidRating or DuplicateReview and no change, else Created, the row
\* with perform_create's arithmetic applied once and one more review
AsIfAlone(p) ==
    LET i == req[p].item
        old == {x \in SeedReviews : x.watchlist = i}
        new == ReviewsOf(i) \ old
    IN  IF ~ValidRating(req[p].rating)
        THEN /\ result[p].status = "InvalidRating"
             /\ items[i] = SeedItems[i] /\ new = {}
        ELSE IF \E x \in old : x.review_user = req[p].user
        THEN /\ result[p].status = "DuplicateReview"
             /\ items[i] = SeedItems[i] /\ new = {}
        ELSE /\ result[p].status = "Created"
             /\ items[i] = [SeedItems[i] EXCEPT
                              !.avg_rating = NewAverage(SeedItems[i], req[p].rating),
                              !.number_rating = SeedItems[i].number_rating + 1]
             /\ \E x \in new :
                    /\ new = {x} /\ x.id = result[p].value
                    /\ x.review_user = req[p].user /\ x.rating = req[p].rating

\* C21: no step of a CreateReview, UpdateReview or DeleteReview call changes
\* the avg_rating, the number_rating or the set of reviews of an item other
\* than the one the call is about; and once concurrent CreateReview calls on
\* different items have all returned, each has the answer and each item the
\* aggregate that the call gives when it runs alone.
C21_CrossItemIsolation ==
    /\ [](CreatesOnDifferentItems => \A p \in ConcWorkers : AsIfAlone(p))
    /\ [][\A p \in ConcWorkers : OthersUntouched(p)]_vars

\* C21 witness: two CreateReview calls on different items are in flight, one
\* has written its item's aggregate and the other is about to, and another
\* item has a review
C21_Witness ==
    \E p, q \in ConcWorkers :
        /\ pc[p] = "cr_insert" /\ pc[q] = "cr_save"
        /\ req[p].item # req[q].item
        /\ items[req[p].item].number_rating > 0
        /\ \E x \in reviews : x.watchlist \notin {req[p].item}
====
